---- MODULE Spec2Model ----
(***************************************************************************)
(* Model of lib/config/target.js: the version gate (versionDependent), the *)
(* target pattern registry (TARGETS), the single-target resolver           *)
(* (getTargetProperties), the merge of target properties                   *)
(* (mergeTargetProperties) and the multi-target entry point                *)
(* (getTargetsProperties).                                                 *)
(*                                                                         *)
(* JavaScript strings are sequences of one-character strings, JavaScript   *)
(* values are tagged records, and a JavaScript number is a rational        *)
(* num/den (den > 0), so that +"10.4" is 104/10 and not 10.                *)
(***************************************************************************)
EXTENDS Integers, Sequences, FiniteSets, TLC

VARIABLES pc, op, args, ret

vars == <<pc, op, args, ret>>

(***************************************************************************)
(* Bounds of the inputs.                                                   *)
(***************************************************************************)
\* largest major version of a generated versioned target string
MaxMajor == 13
\* largest minor version of a generated versioned target string
MaxMinor == 44
\* largest edition N of a generated "esN" string (and 2009 + N for years)
MaxEdition == 11
\* longest list handed to getTargetsProperties / mergeTargetProperties
MaxTargets == 2
\* largest number handed to versionDependent and to the comparator it returns
MaxGate == 3

(***************************************************************************)
(* JavaScript values.                                                      *)
(***************************************************************************)
Undefined == [type |-> "undefined"]
Bool(b) == [type |-> "boolean", b |-> b]
Str(chars) == [type |-> "string", chars |-> chars]
Num(n, d) == [type |-> "number", num |-> n, den |-> d]
IntNum(n) == Num(n, 1)
Obj(props) == [type |-> "object", props |-> props]

\* ToBoolean, as used by `!x`, `x ? a : b`, `if (x)` and `a && b`
Truthy(v) ==
  CASE v.type = "undefined" -> FALSE
    [] v.type = "boolean" -> v.b
    [] v.type = "string" -> Len(v.chars) > 0
    [] v.type = "number" -> v.num # 0
    [] v.type = "object" -> TRUE

DigitChars == <<"0", "1", "2", "3", "4", "5", "6", "7", "8", "9">>
IsDigit(c) == \E d \in 1..10 : DigitChars[d] = c
DigitVal(c) == (CHOOSE d \in 1..10 : DigitChars[d] = c) - 1

\* \d+ over the whole of s
IsDigits(s) == Len(s) >= 1 /\ \A i \in 1..Len(s) : IsDigit(s[i])

RECURSIVE DigitsVal(_)
DigitsVal(s) ==
  IF Len(s) = 0 THEN 0
  ELSE 10 * DigitsVal(SubSeq(s, 1, Len(s) - 1)) + DigitVal(s[Len(s)])

RECURSIVE Pow10(_)
Pow10(n) == IF n = 0 THEN 1 ELSE 10 * Pow10(n - 1)

DotAt(s) == CHOOSE k \in 1..Len(s) : s[k] = "."

\* unary plus: a number is itself, a string of the shape digits[.digits] is
\* the decimal number it spells (the only strings the matchers hand over)
ToNumber(v) ==
  IF v.type = "number" THEN v
  ELSE IF IsDigits(v.chars) THEN IntNum(DigitsVal(v.chars))
  ELSE LET k == DotAt(v.chars)
           ip == SubSeq(v.chars, 1, k - 1)
           fp == SubSeq(v.chars, k + 1, Len(v.chars))
       IN Num(DigitsVal(ip) * Pow10(Len(fp)) + DigitsVal(fp), Pow10(Len(fp)))

\* a > b, a >= b, a === b on numbers
NumGt(a, b) == a.num * b.den > b.num * a.den
NumGe(a, b) == a.num * b.den >= b.num * a.den
NumEq(a, b) == a.num * b.den = b.num * a.den

(***************************************************************************)
(* versionDependent(major, minor)(vMajor, vMinor): the closure is applied  *)
(* at once; vMinor = Undefined takes the default parameter value 0.        *)
(***************************************************************************)
versionDependent(major, minor, vMajor, vMinor) ==
  IF ~Truthy(major) THEN Undefined
  ELSE LET mj == ToNumber(major)
           mn == IF Truthy(minor) THEN ToNumber(minor) ELSE IntNum(0)
           vMn == IF vMinor = Undefined THEN IntNum(0) ELSE vMinor
       IN Bool(NumGt(mj, vMajor) \/ (NumEq(mj, vMajor) /\ NumGe(mn, vMn)))

(***************************************************************************)
(* The regular expressions of TARGETS.  Each is anchored at both ends, so  *)
(* exec either fails or matches the whole string; a match hands over its   *)
(* capture groups (`[, ...args] = match`), Undefined for a group that took *)
(* no part in the match.                                                   *)
(***************************************************************************)
NoMatch == [matched |-> FALSE, args |-> <<>>]
Match(groups) == [matched |-> TRUE, args |-> groups]

StartsWith(s, p) == Len(s) >= Len(p) /\ SubSeq(s, 1, Len(p)) = p
EndsWith(s, p) == Len(s) >= Len(p) /\ SubSeq(s, Len(s) - Len(p) + 1, Len(s)) = p
Drop(s, n) == SubSeq(s, n + 1, Len(s))
DropLast(s, n) == SubSeq(s, 1, Len(s) - n)

\* (\d+(?:\.(\d+))?) over the whole of s: the outer group is all of s, the
\* inner group the digits after the dot
VersionGroups(s) ==
  IF IsDigits(s) THEN Match(<<Str(s), Undefined>>)
  ELSE IF \E k \in 1..Len(s) :
            /\ s[k] = "."
            /\ IsDigits(SubSeq(s, 1, k - 1))
            /\ IsDigits(SubSeq(s, k + 1, Len(s)))
       THEN Match(<<Str(s), Str(SubSeq(s, DotAt(s) + 1, Len(s)))>>)
       ELSE NoMatch

S_async == <<"a", "s", "y", "n", "c", "-">>
S_node == <<"n", "o", "d", "e">>
S_web == <<"w", "e", "b">>
S_webworker == <<"w", "e", "b", "w", "o", "r", "k", "e", "r">>
S_electron == <<"e", "l", "e", "c", "t", "r", "o", "n">>
S_main == <<"-", "m", "a", "i", "n">>
S_preload == <<"-", "p", "r", "e", "l", "o", "a", "d">>
S_renderer == <<"-", "r", "e", "n", "d", "e", "r", "e", "r">>
S_nwjs == <<"n", "w", "j", "s">>
S_node_webkit == <<"n", "o", "d", "e", "-", "w", "e", "b", "k", "i", "t">>
S_es == <<"e", "s">>

\* /^(async-)node(\d+(?:\.(\d+))?)$/
NodeRegExp(target) ==
  IF StartsWith(target, S_async \o S_node)
  THEN LET v == VersionGroups(Drop(target, Len(S_async \o S_node)))
       IN IF v.matched THEN Match(<<Str(S_async)>> \o v.args) ELSE NoMatch
  ELSE NoMatch

\* /^web$/
WebRegExp(target) == IF target = S_web THEN Match(<<>>) ELSE NoMatch

\* /^webworker$/
WebworkerRegExp(target) == IF target = S_webworker THEN Match(<<>>) ELSE NoMatch

\* /^electron(\d+(?:\.(\d+))?)-main$/
ElectronMainRegExp(target) ==
  IF StartsWith(target, S_electron) /\ EndsWith(Drop(target, Len(S_electron)), S_main)
  THEN VersionGroups(DropLast(Drop(target, Len(S_electron)), Len(S_main)))
  ELSE NoMatch

\* /^electron(\d+(?:\.(\d+))?)-(?:preload|renderer)$/
ElectronPreloadRegExp(target) ==
  IF StartsWith(target, S_electron)
  THEN LET rest == Drop(target, Len(S_electron))
       IN IF EndsWith(rest, S_preload)
          THEN VersionGroups(DropLast(rest, Len(S_preload)))
          ELSE IF EndsWith(rest, S_renderer)
               THEN VersionGroups(DropLast(rest, Len(S_renderer)))
               ELSE NoMatch
  ELSE NoMatch

\* /^(?:nwjs|node-webkit)(\d+(?:\.(\d+))?)$/
NwjsRegExp(target) ==
  IF StartsWith(target, S_nwjs) THEN VersionGroups(Drop(target, Len(S_nwjs)))
  ELSE IF StartsWith(target, S_node_webkit)
       THEN VersionGroups(Drop(target, Len(S_node_webkit)))
       ELSE NoMatch

\* /^es(\d+)$/
EsRegExp(target) ==
  IF StartsWith(target, S_es) /\ IsDigits(Drop(target, Len(S_es)))
  THEN Match(<<Str(Drop(target, Len(S_es)))>>)
  ELSE NoMatch

(***************************************************************************)
(* The handlers of TARGETS.  An object literal is the function from its    *)
(* keys to their values.                                                   *)
(***************************************************************************)
T == Bool(TRUE)
F == Bool(FALSE)

NodeHandler(asyncFlag, major, minor) ==
  Obj(("node" :> T) @@ ("electronMain" :> F) @@ ("electronPreload" :> F)
      @@ ("nwjs" :> F) @@ ("web" :> F)
      @@ ("require" :> Bool(~Truthy(asyncFlag))) @@ ("global" :> T)
      @@ ("document" :> F) @@ ("fetchWasm" :> F) @@ ("importScripts" :> F)
      @@ ("importScriptsInWorker" :> F)
      @@ ("globalThis" :> versionDependent(major, minor, IntNum(12), Undefined))
      @@ ("const" :> versionDependent(major, minor, IntNum(6), Undefined))
      @@ ("arrowFunctions" :> versionDependent(major, minor, IntNum(6), Undefined))
      @@ ("forOf" :> versionDependent(major, minor, IntNum(5), Undefined))
      @@ ("destructuring" :> versionDependent(major, minor, IntNum(6), Undefined))
      @@ ("bigInitLiteral" :> versionDependent(major, minor, IntNum(10), IntNum(4)))
      @@ ("import" :> versionDependent(major, minor, IntNum(12), IntNum(17)))
      @@ ("module" :> versionDependent(major, minor, IntNum(12), IntNum(17))))

WebHandler ==
  Obj(("web" :> T) @@ ("node" :> F) @@ ("electronMain" :> F)
      @@ ("electronPreload" :> F) @@ ("nwjs" :> F)
      @@ ("document" :> T) @@ ("importScriptsInWorker" :> T) @@ ("fetchWasm" :> T)
      @@ ("importScripts" :> F) @@ ("require" :> F) @@ ("global" :> F))

WebworkerHandler ==
  Obj(("web" :> T) @@ ("node" :> F) @@ ("electronMain" :> F)
      @@ ("electronPreload" :> F) @@ ("nwjs" :> F)
      @@ ("importScripts" :> T) @@ ("importScriptsInWorker" :> T)
      @@ ("fetchWasm" :> T) @@ ("require" :> F) @@ ("document" :> F)
      @@ ("global" :> F))

\* the syntax flags of both electron handlers
ElectronSyntax(major, minor) ==
  ("globalThis" :> versionDependent(major, minor, IntNum(5), Undefined))
  @@ ("const" :> versionDependent(major, minor, IntNum(1), IntNum(1)))
  @@ ("arrowFunctions" :> versionDependent(major, minor, IntNum(1), IntNum(1)))
  @@ ("forOf" :> versionDependent(major, minor, IntNum(0), IntNum(36)))
  @@ ("destructuring" :> versionDependent(major, minor, IntNum(1), IntNum(1)))
  @@ ("bigInitLiteral" :> versionDependent(major, minor, IntNum(4), Undefined))
  @@ ("import" :> versionDependent(major, minor, IntNum(11), Undefined))
  @@ ("module" :> versionDependent(major, minor, IntNum(11), Undefined))

ElectronMainHandler(major, minor) ==
  Obj(("node" :> T) @@ ("electronMain" :> T) @@ ("electronPreload" :> F)
      @@ ("web" :> F) @@ ("nwjs" :> F)
      @@ ("global" :> T) @@ ("document" :> F) @@ ("fetchWasm" :> F)
      @@ ("importScripts" :> F) @@ ("importScriptsInWorker" :> F)
      @@ ("require" :> F)
      @@ ElectronSyntax(major, minor))

ElectronPreloadHandler(major, minor) ==
  Obj(("node" :> T) @@ ("web" :> T) @@ ("electronPreload" :> T)
      @@ ("electronMain" :> F) @@ ("nwjs" :> F)
      @@ ("global" :> T) @@ ("require" :> F) @@ ("importScriptsInWorker" :> F)
      @@ ("importScripts" :> F) @@ ("fetchWasm" :> F) @@ ("document" :> F)
      @@ ElectronSyntax(major, minor))

NwjsHandler(major, minor) ==
  Obj(("node" :> T) @@ ("web" :> T) @@ ("nwjs" :> T)
      @@ ("electronMain" :> F) @@ ("electronPreload" :> F)
      @@ ("global" :> T) @@ ("document" :> F) @@ ("importScriptsInWorker" :> F)
      @@ ("fetchWasm" :> F) @@ ("importScripts" :> F) @@ ("require" :> F)
      @@ ("globalThis" :> versionDependent(major, minor, IntNum(0), IntNum(43)))
      @@ ("const" :> versionDependent(major, minor, IntNum(0), IntNum(15)))
      @@ ("arrowFunctions" :> versionDependent(major, minor, IntNum(0), IntNum(15)))
      @@ ("forOf" :> versionDependent(major, minor, IntNum(0), IntNum(13)))
      @@ ("destructuring" :> versionDependent(major, minor, IntNum(0), IntNum(15)))
      @@ ("bigInitLiteral" :> versionDependent(major, minor, IntNum(0), IntNum(32)))
      @@ ("import" :> versionDependent(major, minor, IntNum(0), IntNum(43)))
      @@ ("module" :> versionDependent(major, minor, IntNum(0), IntNum(43))))

EsHandler(version) ==
  LET n == ToNumber(version)
      v == IF NumGt(n, IntNum(1000)) THEN Num(n.num - 2009 * n.den, n.den) ELSE n
      ge6 == Bool(NumGe(v, IntNum(6)))
  IN Obj(("globalThis" :> ge6) @@ ("const" :> ge6) @@ ("arrowFunctions" :> ge6)
         @@ ("forOf" :> ge6) @@ ("destructuring" :> ge6)
         @@ ("bigInitLiteral" :> ge6) @@ ("import" :> ge6) @@ ("module" :> ge6))

\* the names and descriptions of TARGETS, in registry order
TARGETS ==
  << [name |-> "[async-]node[X[.Y]]",
      description |-> "Node.js in version X.Y. The 'async-' prefix will load chunks asynchronously via 'fs' and 'vm' instead of 'require()'. Examples: node14.5, async-node10."],
     [name |-> "web", description |-> "Web browser."],
     [name |-> "webworker",
      description |-> "Web Worker, SharedWorker or Service Worker."],
     [name |-> "electron[X[.Y]]-main",
      description |-> "Electron in version X.Y. Script is running in main context."],
     [name |-> "electron[X[.Y]]-preload / electron[X[.Y]]-renderer",
      description |-> "Electron in version X.Y. Script is running in preload or renderer context."],
     [name |-> "nwjs[X[.Y]] / node-webkit[X[.Y]]",
      description |-> "NW.js in version X.Y."],
     [name |-> "esX",
      description |-> "EcmaScript in this version. Examples: es5, es2020."] >>

\* regExp.exec(target) of the i-th entry of TARGETS
RegExpExec(i, target) ==
  CASE i = 1 -> NodeRegExp(target)
    [] i = 2 -> WebRegExp(target)
    [] i = 3 -> WebworkerRegExp(target)
    [] i = 4 -> ElectronMainRegExp(target)
    [] i = 5 -> ElectronPreloadRegExp(target)
    [] i = 6 -> NwjsRegExp(target)
    [] i = 7 -> EsRegExp(target)

\* handler(...args) of the i-th entry of TARGETS
Handler(i, a) ==
  CASE i = 1 -> NodeHandler(a[1], a[2], a[3])
    [] i = 2 -> WebHandler
    [] i = 3 -> WebworkerHandler
    [] i = 4 -> ElectronMainHandler(a[1], a[2])
    [] i = 5 -> ElectronPreloadHandler(a[1], a[2])
    [] i = 6 -> NwjsHandler(a[1], a[2])
    [] i = 7 -> EsHandler(a[1])

(***************************************************************************)
(* getTargetProperties, mergeTargetProperties, getTargetsProperties.       *)
(* A call ends in Return(value) or in Throw(error).                        *)
(***************************************************************************)
Return(value) == [kind |-> "return", value |-> value]
Throw(error) == [kind |-> "throw", error |-> error]

\* new Error(`Unknown target '${target}'. The following targets are
\* supported:\n${TARGETS.map(([name, description]) => ...).join("\n")}`):
\* the message is kept as its parts, the target and the lines of the listing
UnknownTargetError(target) ==
  [target |-> target,
   supported |-> [i \in 1..Len(TARGETS) |-> <<TARGETS[i].name, TARGETS[i].description>>]]

\* the for loop of getTargetProperties from the i-th entry of TARGETS on
RECURSIVE ScanTargets(_, _)
ScanTargets(target, i) ==
  IF i > Len(TARGETS) THEN Throw(UnknownTargetError(target))
  ELSE LET match == RegExpExec(i, target)
       IN IF match.matched
          THEN LET result == Handler(i, match.args)
               IN IF Truthy(result) THEN Return(result.props)
                  ELSE ScanTargets(target, i + 1)
          ELSE ScanTargets(target, i + 1)

\* getTargetProperties with a scan that passes over the first entry of TARGETS
getTargetProperties_SkipFirst(target) == ScanTargets(target, 2)

getTargetProperties(target) == ScanTargets(target, 1)

\* the keys collected by the first loop of mergeTargetProperties
MergeKeys(targetProperties) ==
  UNION {DOMAIN targetProperties[i] : i \in 1..Len(targetProperties)}

\* tp[key]
Prop(tp, key) == IF key \in DOMAIN tp THEN tp[key] ELSE Undefined

\* the inner loop of mergeTargetProperties from the i-th element on, with
\* the value of `merged` so far; a `break` ends the recursion
\* the inner loop with `value === undefined` alone setting merged to undefined
RECURSIVE MergeKey_Propagate(_, _, _, _, _)
MergeKey_Propagate(targetProperties, key, any, i, merged) ==
  IF i > Len(targetProperties) THEN merged
  ELSE LET value == Prop(targetProperties[i], key)
       IN IF any
          THEN IF value = T THEN T
               ELSE MergeKey_Propagate(targetProperties, key, any, i + 1, merged)
          ELSE IF value = F THEN F
               ELSE IF value = Undefined
                    THEN MergeKey_Propagate(targetProperties, key, any, i + 1, Undefined)
                    ELSE MergeKey_Propagate(targetProperties, key, any, i + 1, merged)

RECURSIVE MergeKey(_, _, _, _, _)
MergeKey(targetProperties, key, any, i, merged) ==
  IF i > Len(targetProperties) THEN merged
  ELSE LET value == Prop(targetProperties[i], key)
       IN IF any
          THEN IF value = T THEN T
               ELSE MergeKey(targetProperties, key, any, i + 1, merged)
          ELSE IF value = F THEN F
               ELSE IF value = Undefined /\ Truthy(value)
                    THEN MergeKey(targetProperties, key, any, i + 1, Undefined)
                    ELSE MergeKey(targetProperties, key, any, i + 1, merged)

\* mergeTargetProperties with `merged` starting as true in both modes
mergeTargetProperties_InitTrue(targetProperties, any) ==
  [key \in MergeKeys(targetProperties) |->
     MergeKey(targetProperties, key, any, 1, T)]

mergeTargetProperties(targetProperties, any) ==
  [key \in MergeKeys(targetProperties) |->
     MergeKey(targetProperties, key, any, 1, Bool(~any))]

\* targets.map(getTargetProperties) from the i-th element on: the first
\* throw leaves the map; done holds the results so far
RECURSIVE MapTargets(_, _, _)
MapTargets(targets, i, done) ==
  IF i > Len(targets) THEN Return(done)
  ELSE LET r == getTargetProperties(targets[i])
       IN IF r.kind = "throw" THEN r
          ELSE MapTargets(targets, i + 1, Append(done, r.value))

\* getTargetsProperties with the results merged with any = true
getTargetsProperties_Any(targets) ==
  LET mapped == MapTargets(targets, 1, <<>>)
  IN IF mapped.kind = "throw" THEN mapped
     ELSE Return(mergeTargetProperties(mapped.value, TRUE))

getTargetsProperties(targets) ==
  LET mapped == MapTargets(targets, 1, <<>>)
  IN IF mapped.kind = "throw" THEN mapped
     ELSE Return(mergeTargetProperties(mapped.value, FALSE))

(***************************************************************************)
(* The calls.  A call is drawn in Init (pc = "call"), the action of its    *)
(* function runs it to its end (pc = "done") and leaves the outcome in     *)
(* ret.  A target string is drawn as a shape (family, prefix, version      *)
(* numbers) and spelled out by Render.                                     *)
(***************************************************************************)
\* no version number at this place of a shape
Absent == 0 - 1

RECURSIVE Digits(_)
Digits(n) ==
  IF n < 10 THEN <<DigitChars[n + 1]>>
  ELSE Digits(n \div 10) \o <<DigitChars[(n % 10) + 1]>>

VersionedFamilies ==
  {"node", "electron-main", "electron-preload", "electron-renderer", "nwjs",
   "node-webkit"}

Others ==
  << <<"b", "o", "g", "u", "s", "-", "t", "a", "r", "g", "e", "t">>,
     <<>>,
     <<"e", "s">>,
     <<"a", "s", "y", "n", "c", "-", "w", "e", "b">>,
     <<"a", "s", "y", "n", "c", "-", "n", "o", "d", "e", "1", ".">>,
     <<"e", "l", "e", "c", "t", "r", "o", "n", "5">>,
     <<"w", "e", "b", " ">>,
     <<"N", "o", "d", "e", "1", "2">> >>

Shape(family, async, major, minor) ==
  [family |-> family, async |-> async, major |-> major, minor |-> minor]

VersionedShapes ==
  {sh \in [family : VersionedFamilies, async : BOOLEAN,
           major : {Absent} \cup 0..MaxMajor, minor : {Absent} \cup 0..MaxMinor] :
     /\ sh.async => sh.family = "node"
     /\ sh.major = Absent => sh.minor = Absent}

EsNumbers ==
  0..MaxEdition \cup {1000, 1001} \cup {2009 + k : k \in 0..MaxEdition}

Shapes ==
  VersionedShapes
  \cup {Shape("web", FALSE, Absent, Absent), Shape("webworker", FALSE, Absent, Absent)}
  \cup {Shape("es", FALSE, n, Absent) : n \in EsNumbers}
  \cup {Shape("other", FALSE, i, Absent) : i \in 1..Len(Others)}

VersionText(sh) ==
  IF sh.major = Absent THEN <<>>
  ELSE Digits(sh.major) \o (IF sh.minor = Absent THEN <<>> ELSE <<".">> \o Digits(sh.minor))

Render(sh) ==
  CASE sh.family = "node" ->
         (IF sh.async THEN S_async ELSE <<>>) \o S_node \o VersionText(sh)
    [] sh.family = "electron-main" -> S_electron \o VersionText(sh) \o S_main
    [] sh.family = "electron-preload" -> S_electron \o VersionText(sh) \o S_preload
    [] sh.family = "electron-renderer" -> S_electron \o VersionText(sh) \o S_renderer
    [] sh.family = "nwjs" -> S_nwjs \o VersionText(sh)
    [] sh.family = "node-webkit" -> S_node_webkit \o VersionText(sh)
    [] sh.family = "web" -> S_web
    [] sh.family = "webworker" -> S_webworker
    [] sh.family = "es" -> S_es \o Digits(sh.major)
    [] sh.family = "other" -> Others[sh.major]

\* the targets the lists of getTargetsProperties are made of
ListShapes ==
  {Shape("web", FALSE, Absent, Absent), Shape("webworker", FALSE, Absent, Absent),
   Shape("es", FALSE, 2020, Absent), Shape("es", FALSE, 5, Absent),
   Shape("node", TRUE, 10, Absent), Shape("node", TRUE, 12, 17),
   Shape("node", FALSE, 14, 5), Shape("electron-main", FALSE, 5, Absent),
   Shape("nwjs", FALSE, 0, 43), Shape("other", FALSE, 1, Absent),
   Shape("other", FALSE, 4, Absent)}

SeqsUpTo(S, n) == UNION {[1..k -> S] : k \in 0..n}

\* the descriptors handed to mergeTargetProperties directly
MergeFlags == {"a", "b"}
TriValues == {T, F, Undefined}
Descriptors == UNION {[K -> TriValues] : K \in SUBSET MergeFlags}

\* the values handed to versionDependent directly: absent, a number, or the
\* digits a matcher captured
GateValues ==
  {Undefined} \cup {IntNum(n) : n \in 0..MaxGate} \cup {Str(Digits(n)) : n \in 0..MaxGate}
GateNumbers == {IntNum(n) : n \in 0..MaxGate}

Init ==
  /\ pc = "call"
  /\ ret = [kind |-> "none"]
  /\ \/ /\ op = "getTargetProperties"
        /\ \E sh \in Shapes : args = [target |-> Render(sh), shape |-> sh]
     \/ /\ op = "getTargetsProperties"
        /\ \E shs \in SeqsUpTo(ListShapes, MaxTargets) :
             args = [targets |-> [i \in 1..Len(shs) |-> Render(shs[i])]]
     \/ /\ op = "mergeTargetProperties"
        /\ \E tps \in SeqsUpTo(Descriptors, MaxTargets), any \in BOOLEAN :
             args = [targetProperties |-> tps, any |-> any]
     \/ /\ op = "versionDependent"
        /\ \E major \in GateValues, minor \in GateValues, vMajor \in GateNumbers,
              vMinor \in GateNumbers \cup {Undefined} :
             args = [major |-> major, minor |-> minor, vMajor |-> vMajor,
                     vMinor |-> vMinor]

GetTargetProperties ==
  /\ pc = "call" /\ op = "getTargetProperties"
  /\ ret' = getTargetProperties(args.target)
  /\ pc' = "done"
  /\ UNCHANGED <<op, args>>

GetTargetsProperties ==
  /\ pc = "call" /\ op = "getTargetsProperties"
  /\ ret' = getTargetsProperties(args.targets)
  /\ pc' = "done"
  /\ UNCHANGED <<op, args>>

MergeTargetProperties ==
  /\ pc = "call" /\ op = "mergeTargetProperties"
  /\ ret' = Return(mergeTargetProperties(args.targetProperties, args.any))
  /\ pc' = "done"
  /\ UNCHANGED <<op, args>>

VersionDependent ==
  /\ pc = "call" /\ op = "versionDependent"
  /\ ret' = Return(versionDependent(args.major, args.minor, args.vMajor, args.vMinor))
  /\ pc' = "done"
  /\ UNCHANGED <<op, args>>

Next ==
  \/ GetTargetProperties
  \/ GetTargetsProperties
  \/ MergeTargetProperties
  \/ VersionDependent

Spec == Init /\ [][Next]_vars

(***************************************************************************)
(* The vocabulary of the specification: the capability flags by group, a   *)
(* flag's value in a descriptor (an absent key is Unknown), and the        *)
(* version comparison on integers.                                         *)
(***************************************************************************)
PlatformFlags == {"web", "node", "nwjs", "electronMain", "electronPreload"}
ApiFlags ==
  {"require", "document", "importScripts", "importScriptsInWorker", "fetchWasm",
   "global"}
SyntaxFlags ==
  {"globalThis", "bigIntLiteral", "const", "arrowFunctions", "forOf",
   "destructuring", "import", "module"}
CapabilityFlags == PlatformFlags \cup ApiFlags \cup SyntaxFlags

Unknown == Undefined
FlagOf(d, k) == IF k \in DOMAIN d THEN d[k] ELSE Unknown

\* the value a descriptor reports for big-int literal syntax, under
\* whichever key it reports it
BigIntFlagOf(d) ==
  IF "bigIntLiteral" \in DOMAIN d THEN d["bigIntLiteral"]
  ELSE FlagOf(d, "bigInitLiteral")

AtLeast(major, minor, introMajor, introMinor) ==
  major > introMajor \/ (major = introMajor /\ minor >= introMinor)

Finished(o) == pc = "done" /\ op = o
Returned == ret.kind = "return"
Thrown == ret.kind = "throw"

Versioned(sh) == sh.family \in VersionedFamilies /\ sh.major # Absent
MinorOf(sh) == IF sh.minor = Absent THEN 0 ELSE sh.minor
Recognized(target) == \E i \in 1..Len(TARGETS) : RegExpExec(i, target).matched

\* the introduction version (major, minor) of a syntax flag in a family
Intro(family, flag) ==
  IF family = "node" THEN
    CASE flag = "globalThis" -> <<12, 0>>
      [] flag \in {"const", "arrowFunctions", "destructuring"} -> <<6, 0>>
      [] flag = "forOf" -> <<5, 0>>
      [] flag = "bigIntLiteral" -> <<10, 4>>
      [] flag \in {"import", "module"} -> <<12, 17>>
  ELSE IF family \in {"electron-main", "electron-preload", "electron-renderer"} THEN
    CASE flag = "globalThis" -> <<5, 0>>
      [] flag \in {"const", "arrowFunctions", "destructuring"} -> <<1, 1>>
      [] flag = "forOf" -> <<0, 36>>
      [] flag = "bigIntLiteral" -> <<4, 0>>
      [] flag \in {"import", "module"} -> <<11, 0>>
  ELSE
    CASE flag \in {"globalThis", "import", "module"} -> <<0, 43>>
      [] flag \in {"const", "arrowFunctions", "destructuring"} -> <<0, 15>>
      [] flag = "forOf" -> <<0, 13>>
      [] flag = "bigIntLiteral" -> <<0, 32>>

\* the platform flags a family sets to true
FamilyPlatform(family) ==
  CASE family = "node" -> {"node"}
    [] family = "electron-main" -> {"node", "electronMain"}
    [] family \in {"electron-preload", "electron-renderer"} ->
         {"node", "web", "electronPreload"}
    [] family \in {"nwjs", "node-webkit"} -> {"node", "web", "nwjs"}

\* the edition number of the N of "esN"
Edition(n) == IF n > 1000 THEN n - 2009 ELSE n

\* the number a value handed to the version gate stands for
ValueOf(v) ==
  IF v = Undefined THEN 0
  ELSE IF v.type = "number" THEN v.num ELSE DigitsVal(v.chars)

(***************************************************************************)
(* C1.  Every versioned target string of the node family, with or without  *)
(* the 'async-' prefix, resolves to a descriptor with node=true,           *)
(* electronMain=false, electronPreload=false, nwjs=false, web=false,       *)
(* global=true, document=false and require=true exactly when the prefix is *)
(* absent; the platform/API flags other than require are the same for the  *)
(* async and the non-async form of the same version.                       *)
(***************************************************************************)
C1_NodeFamilyFlags ==
  (Finished("getTargetProperties") /\ args.shape.family = "node"
     /\ args.shape.major # Absent) =>
    /\ Returned
    /\ FlagOf(ret.value, "node") = T
    /\ FlagOf(ret.value, "electronMain") = F
    /\ FlagOf(ret.value, "electronPreload") = F
    /\ FlagOf(ret.value, "nwjs") = F
    /\ FlagOf(ret.value, "web") = F
    /\ FlagOf(ret.value, "global") = T
    /\ FlagOf(ret.value, "document") = F
    /\ FlagOf(ret.value, "require") = Bool(~args.shape.async)
    /\ LET other ==
             getTargetProperties(Render([args.shape EXCEPT !.async = ~args.shape.async]))
       IN /\ other.kind = "return"
          /\ \A k \in (PlatformFlags \cup ApiFlags) \ {"require"} :
               FlagOf(ret.value, k) = FlagOf(other.value, k)

(***************************************************************************)
(* C2.  For every versioned target string of the node, electron and        *)
(* nwjs/node-webkit families that resolves, each syntax flag is true iff   *)
(* (major, minor), compared as integers with minor defaulting to 0, is at  *)
(* or above the family's introduction version of the flag, and false       *)
(* otherwise.  The big-int literal flag is read under whichever key the    *)
(* descriptor reports it, and strings that do not resolve are left to C1,  *)
(* so that what is stated here is the version comparison alone.            *)
(***************************************************************************)
C2_SyntaxFlagsByVersion ==
  (Finished("getTargetProperties") /\ Versioned(args.shape) /\ Returned) =>
    \A flag \in SyntaxFlags :
      LET stated == IF flag = "bigIntLiteral" THEN BigIntFlagOf(ret.value)
                    ELSE FlagOf(ret.value, flag)
          intro == Intro(args.shape.family, flag)
      IN stated = Bool(AtLeast(args.shape.major, MinorOf(args.shape),
                               intro[1], intro[2]))

(***************************************************************************)
(* C3.  A target string of the node, electron or nwjs/node-webkit family   *)
(* without version digits ("node", "async-node", "electron-main", "nwjs")  *)
(* is recognized and resolves to a descriptor with the family's fixed      *)
(* platform flags and with every syntax flag Unknown.                      *)
(***************************************************************************)
C3_VersionOptional ==
  (Finished("getTargetProperties") /\ args.shape.family \in VersionedFamilies
     /\ args.shape.major = Absent) =>
    /\ Returned
    /\ \A k \in PlatformFlags :
         FlagOf(ret.value, k) = Bool(k \in FamilyPlatform(args.shape.family))
    /\ \A k \in SyntaxFlags : FlagOf(ret.value, k) = Unknown

(***************************************************************************)
(* C4.  getTargetProperties throws iff no pattern of the registry matches  *)
(* the whole input string, and otherwise returns a descriptor; the error   *)
(* carries the input string and the name and description of every pattern  *)
(* of the registry, in registry order.                                     *)
(***************************************************************************)
C4_UnknownTargetIffNoMatch ==
  Finished("getTargetProperties") =>
    /\ Thrown <=> ~Recognized(args.target)
    /\ Returned <=> Recognized(args.target)
    /\ Thrown =>
         /\ ret.error.target = args.target
         /\ Len(ret.error.supported) = Len(TARGETS)
         /\ \A i \in 1..Len(TARGETS) :
              ret.error.supported[i] = <<TARGETS[i].name, TARGETS[i].description>>

C4_Witness ==
  /\ Finished("getTargetProperties")
  /\ args.target = Others[1]
  /\ Thrown
  /\ ret.error.target = Others[1]

(***************************************************************************)
(* C5.  getTargetsProperties resolves the elements in list order; if some  *)
(* element is unrecognized it throws the error of the first such element   *)
(* and returns nothing; otherwise it returns the conjunctive merge of the  *)
(* elements' descriptors: the keys are those stated by some element, and a *)
(* key is false iff some element states it false, true otherwise (so a     *)
(* flag stated true by one element and contradicted by none is true).      *)
(***************************************************************************)
C5_ListResolution ==
  Finished("getTargetsProperties") =>
    LET n == Len(args.targets)
        each == [i \in 1..n |-> getTargetProperties(args.targets[i])]
        bad == {i \in 1..n : each[i].kind = "throw"}
    IN IF bad # {}
       THEN /\ Thrown
            /\ \E i \in bad : (\A j \in bad : i <= j) /\ ret = each[i]
       ELSE /\ Returned
            /\ DOMAIN ret.value = UNION {DOMAIN each[i].value : i \in 1..n}
            /\ \A k \in DOMAIN ret.value :
                 ret.value[k] =
                   Bool(~\E i \in 1..n : FlagOf(each[i].value, k) = F)

C5_Witness ==
  /\ Finished("getTargetsProperties")
  /\ Len(args.targets) = 2
  /\ args.targets[1] = Others[1]
  /\ args.targets[2] = Others[4]
  /\ Thrown
  /\ ret.error.target = Others[1]

(***************************************************************************)
(* C6.  Conjunctive merge (any = false): the keys of the result are the    *)
(* union of the inputs' keys; a key is False if some input states False    *)
(* for it and True otherwise, never Unknown.                               *)
(***************************************************************************)
C6_ConjunctiveMerge ==
  (Finished("mergeTargetProperties") /\ ~args.any) =>
    LET tps == args.targetProperties
    IN /\ Returned
       /\ DOMAIN ret.value = UNION {DOMAIN tps[i] : i \in 1..Len(tps)}
       /\ \A k \in DOMAIN ret.value :
            ret.value[k] = IF \E i \in 1..Len(tps) : FlagOf(tps[i], k) = F
                           THEN F ELSE T

\* [{a: true}, {}] merges to {a: true}
C6_Witness ==
  /\ Finished("mergeTargetProperties") /\ ~args.any
  /\ Len(args.targetProperties) = 2
  /\ DOMAIN args.targetProperties[1] = {"a"}
  /\ args.targetProperties[1]["a"] = T
  /\ DOMAIN args.targetProperties[2] = {}
  /\ DOMAIN ret.value = {"a"}
  /\ ret.value["a"] = T

(***************************************************************************)
(* C7.  Disjunctive merge (any = true): for each key of the union of the   *)
(* inputs' keys the result is True if some input states True for it and    *)
(* False otherwise, never Unknown.                                         *)
(***************************************************************************)
C7_DisjunctiveMerge ==
  (Finished("mergeTargetProperties") /\ args.any) =>
    LET tps == args.targetProperties
    IN /\ Returned
       /\ DOMAIN ret.value = UNION {DOMAIN tps[i] : i \in 1..Len(tps)}
       /\ \A k \in DOMAIN ret.value :
            ret.value[k] = IF \E i \in 1..Len(tps) : FlagOf(tps[i], k) = T
                           THEN T ELSE F

\* [{a: false}, {}] merges to {a: false}
C7_Witness ==
  /\ Finished("mergeTargetProperties") /\ args.any
  /\ Len(args.targetProperties) = 2
  /\ DOMAIN args.targetProperties[1] = {"a"}
  /\ args.targetProperties[1]["a"] = F
  /\ DOMAIN args.targetProperties[2] = {}
  /\ DOMAIN ret.value = {"a"}
  /\ ret.value["a"] = F

(***************************************************************************)
(* C8.  For every target string "es" followed by the digits of N the       *)
(* descriptor states no platform or API flag, and every syntax flag is     *)
(* true iff the edition is >= 6, where the edition is N - 2009 when        *)
(* N > 1000 and N otherwise.                                               *)
(***************************************************************************)
C8_EsEdition ==
  (Finished("getTargetProperties") /\ args.shape.family = "es") =>
    /\ Returned
    /\ \A k \in PlatformFlags \cup ApiFlags : FlagOf(ret.value, k) = Unknown
    /\ \A k \in SyntaxFlags :
         FlagOf(ret.value, k) = Bool(Edition(args.shape.major) >= 6)

(***************************************************************************)
(* C9.  Every key of every descriptor returned by getTargetProperties or   *)
(* getTargetsProperties is one of the capability flag names, and a         *)
(* descriptor that states syntax flags reports big-int literal syntax      *)
(* under the key bigIntLiteral.                                            *)
(***************************************************************************)
C9_FlagNames ==
  ((Finished("getTargetProperties") \/ Finished("getTargetsProperties")) /\ Returned) =>
    /\ DOMAIN ret.value \subseteq CapabilityFlags
    /\ "globalThis" \in DOMAIN ret.value => "bigIntLiteral" \in DOMAIN ret.value

====
